---- MODULE Spec2Model ----
(***************************************************************************)
(* The two 3D viewers of the dashboard, LoadingMultipleAssets (prefix LMA, *)
(* src/src/utils/dashboardSidebarData.ts) and LoadingAssets (prefix LA,    *)
(* src/src/components/Dashboard/LoadingAssets/LoadingAssets.tsx), and the   *)
(* static navigation tree SidebarItemsData.                                *)
(*                                                                         *)
(* A behaviour is one visit of the dashboard: the page mounts one of the   *)
(* two viewers (its useEffect body runs), the browser then delivers load   *)
(* callbacks, animation frames and resize events in any order, and the     *)
(* effect cleanup may run at any moment.  Load callbacks carry no guard on *)
(* the component being mounted, so they stay enabled after the cleanup.    *)
(***************************************************************************)
EXTENDS Integers, Sequences, FiniteSets, TLC

\* Largest animation-frame handle the window hands out in a behaviour.
MaxFrames == 3

\* Number of distinct window sizes a resize event can choose from.
MaxWindowSize == 2

WindowSizes == 1..MaxWindowSize

Status == {"unissued", "pending", "loaded", "failed"}

NULL == "null"

(***************************************************************************)
(* Static navigation tree.  An item without a sub array has sub = <<>>.    *)
(***************************************************************************)
Leaf(id, name, path) == [id |-> id, name |-> name, path |-> path, sub |-> <<>>]

Parent(id, name, sub) == [id |-> id, name |-> name, path |-> "", sub |-> sub]

SidebarItemsData_DuplicateId ==
  << Leaf(1, "Dashboard", "/"),
     Parent(2, "Three Js",
       << Parent(21, "Geometries",
            << Leaf(211, "Active Geometries", "/dashboard/geometries"),
               Leaf(212, "Active Camera", "/dashboard/camera") >>),
          Parent(22, "Materials",
            << Leaf(221, "All Materials", "/dashboard/materials"),
               Leaf(222, "Common Materials", "/dashboard/common-materials") >>) >>),
     Parent(3, "Threejs Loading",
       << Leaf(222, "Loading Multiple Assets", "/dashboard/loading-multiple-assets"),
          Parent(32, "Loading",
            << Leaf(321, "Loading Multiple ", "/dashboard/loading-assets"),
               Leaf(322, "Branch Settings", "/branches/manage/settings") >>) >>),
     Leaf(5, "Geofences", "/geofences/all-geofences"),
     Leaf(9, "Groups", "/groups/all-groups") >>

SidebarItemsData ==
  << Leaf(1, "Dashboard", "/"),
     Parent(2, "Three Js",
       << Parent(21, "Geometries",
            << Leaf(211, "Active Geometries", "/dashboard/geometries"),
               Leaf(212, "Active Camera", "/dashboard/camera") >>),
          Parent(22, "Materials",
            << Leaf(221, "All Materials", "/dashboard/materials"),
               Leaf(222, "Common Materials", "/dashboard/common-materials") >>) >>),
     Parent(3, "Threejs Loading",
       << Leaf(223, "Loading Multiple Assets", "/dashboard/loading-multiple-assets"),
          Parent(32, "Loading",
            << Leaf(321, "Loading Multiple ", "/dashboard/loading-assets"),
               Leaf(322, "Branch Settings", "/branches/manage/settings") >>) >>),
     Leaf(5, "Geofences", "/geofences/all-geofences"),
     Leaf(9, "Groups", "/groups/all-groups") >>

\* The ids of a list of items and of everything nested under them, in
\* document order.
RECURSIVE FlattenIds(_)
FlattenIds(items) ==
  IF items = <<>> THEN <<>>
  ELSE <<Head(items).id>> \o FlattenIds(Head(items).sub) \o FlattenIds(Tail(items))

(***************************************************************************)
(* State.                                                                  *)
(***************************************************************************)
VARIABLES
  sidebarItems,      \* the exported SidebarItemsData array, as imported
  \* window
  windowSize,        \* window.innerWidth x innerHeight, abstracted to a size index
  resizeListeners,   \* viewers whose handleResize is registered on window
  frameCallbacks,    \* pending requestAnimationFrame entries [handle, owner]
  lastHandle,        \* last handle requestAnimationFrame returned
  console,           \* messages written with console.log / console.error
  \* LoadingMultipleAssets
  LMA_phase,         \* "unmounted" | "mounted" | "cleaned"
  loading,           \* useState(true)
  error,             \* useState<string | null>(null)
  modelsLoaded,      \* let modelsLoaded = 0
  LMA_hdr,           \* status of hdrLoader.load
  LMA_body,          \* status of loader.load(suv_body)
  LMA_wheel,         \* status of loader.load(suv_wheel), per wheel index
  LMA_scene,         \* objects added to the scene
  LMA_environment,   \* scene.environment
  LMA_background,    \* scene.background
  LMA_mountChildren, \* children of the mountRef div
  LMA_statsChildren, \* children of the statsRef div
  LMA_rendererSize,  \* last renderer.setSize argument
  LMA_disposed,      \* three.js objects dispose() was called on
  LMA_animationFrameId,
  LMA_frames,        \* number of times animate has run
  \* LoadingAssets
  LA_phase,
  LA_hdr,
  LA_texture,
  LA_model,
  LA_scene,
  LA_environment,
  LA_background,
  LA_materialMap,    \* material.map
  LA_planeMaterial,  \* plane.material
  LA_meshMaterial,   \* material of each mesh of the loaded model
  LA_mountChildren,
  LA_statsChildren,
  LA_rendererSize,
  LA_disposed,
  LA_animationFrameId,
  LA_frames

win_vars == <<windowSize, resizeListeners, frameCallbacks, lastHandle, console>>

LMA_state == <<loading, error, modelsLoaded>>

LMA_loads == <<LMA_hdr, LMA_body, LMA_wheel>>

LMA_sceneVars == <<LMA_scene, LMA_environment, LMA_background>>

LMA_dom == <<LMA_mountChildren, LMA_statsChildren, LMA_rendererSize, LMA_disposed>>

LMA_loop == <<LMA_animationFrameId, LMA_frames>>

LMA_vars == <<LMA_phase, LMA_state, LMA_loads, LMA_sceneVars, LMA_dom, LMA_loop>>

LA_loads == <<LA_hdr, LA_texture, LA_model>>

LA_sceneVars == <<LA_scene, LA_environment, LA_background, LA_materialMap,
                  LA_planeMaterial, LA_meshMaterial>>

LA_dom == <<LA_mountChildren, LA_statsChildren, LA_rendererSize, LA_disposed>>

LA_loop == <<LA_animationFrameId, LA_frames>>

LA_vars == <<LA_phase, LA_loads, LA_sceneVars, LA_dom, LA_loop>>

vars == <<sidebarItems, win_vars, LMA_vars, LA_vars>>

(***************************************************************************)
(* Program constants.                                                      *)
(***************************************************************************)
totalModels == 5

\* wheelPositions: only the rotate flag matters to what enters the scene.
wheelPositions == <<[rotate |-> FALSE], [rotate |-> TRUE],
                    [rotate |-> FALSE], [rotate |-> TRUE]>>

Wheels == 1..Len(wheelPositions)

WheelObject == <<"wheel1", "wheel2", "wheel3", "wheel4">>

WheelLoadedMsg == <<"Wheel 1 loaded", "Wheel 2 loaded", "Wheel 3 loaded", "Wheel 4 loaded">>

WheelErrorMsg == <<"Error loading wheel 1:", "Error loading wheel 2:",
                   "Error loading wheel 3:", "Error loading wheel 4:">>

HdrErrorText == "Failed to load HDR environment. Using fallback."

SuvErrorText == "Failed to load SUV model. Using fallback."

\* The meshes gltf.scene.traverse visits in the loaded model of LoadingAssets.
Meshes == {"mesh1", "mesh2"}

(***************************************************************************)
(* Init: the modules are imported and both components constructed (useRef, *)
(* useState); no effect has run yet.                                       *)
(***************************************************************************)
Init ==
  /\ sidebarItems = SidebarItemsData
  /\ windowSize = 1
  /\ resizeListeners = {}
  /\ frameCallbacks = {}
  /\ lastHandle = 0
  /\ console = {}
  /\ LMA_phase = "unmounted"
  /\ loading = TRUE
  /\ error = NULL
  /\ modelsLoaded = 0
  /\ LMA_hdr = "unissued"
  /\ LMA_body = "unissued"
  /\ LMA_wheel = [i \in Wheels |-> "unissued"]
  /\ LMA_scene = {}
  /\ LMA_environment = NULL
  /\ LMA_background = NULL
  /\ LMA_mountChildren = {}
  /\ LMA_statsChildren = {}
  /\ LMA_rendererSize = 0
  /\ LMA_disposed = {}
  /\ LMA_animationFrameId = 0
  /\ LMA_frames = 0
  /\ LA_phase = "unmounted"
  /\ LA_hdr = "unissued"
  /\ LA_texture = "unissued"
  /\ LA_model = "unissued"
  /\ LA_scene = {}
  /\ LA_environment = NULL
  /\ LA_background = NULL
  /\ LA_materialMap = NULL
  /\ LA_planeMaterial = NULL
  /\ LA_meshMaterial = [m \in Meshes |-> "gltfDefault"]
  /\ LA_mountChildren = {}
  /\ LA_statsChildren = {}
  /\ LA_rendererSize = 0
  /\ LA_disposed = {}
  /\ LA_animationFrameId = 0
  /\ LA_frames = 0

(***************************************************************************)
(* The window: requestAnimationFrame, cancelAnimationFrame, resize events. *)
(***************************************************************************)
\* requestAnimationFrame(animate) called by viewer `owner` with callback
\* list `callbacks`: the next handle (handles are non-zero) is queued.
requestAnimationFrame(callbacks, owner) ==
  /\ lastHandle' = lastHandle + 1
  /\ frameCallbacks' = callbacks \cup {[handle |-> lastHandle + 1, owner |-> owner]}

cancelAnimationFrame(callbacks, id) == {cb \in callbacks : cb.handle # id}

(***************************************************************************)
(* LoadingMultipleAssets.                                                  *)
(***************************************************************************)
\* function animate(): request the next frame, then update and render.
LMA_animate(callbacks) ==
  /\ requestAnimationFrame(callbacks, "LMA")
  /\ LMA_animationFrameId' = lastHandle + 1
  /\ LMA_frames' = LMA_frames + 1

\* The useEffect body.  The page shows one viewer per visit.
LMA_Mount ==
  /\ LMA_phase = "unmounted"
  /\ LA_phase = "unmounted"
  /\ LMA_phase' = "mounted"
  /\ LMA_mountChildren' = {"canvas"}
  /\ LMA_rendererSize' = windowSize
  /\ resizeListeners' = resizeListeners \cup {"LMA"}
  /\ LMA_scene' = {"ambientLight", "directionalLight", "gridHelper"}
  /\ modelsLoaded' = 0
  /\ LMA_hdr' = "pending"
  /\ LMA_body' = "pending"
  /\ LMA_wheel' = [i \in Wheels |-> "pending"]
  /\ LMA_statsChildren' = {"statsDom"}
  /\ LMA_animate(frameCallbacks)
  /\ UNCHANGED <<sidebarItems, windowSize, console, loading, error, LMA_environment,
                 LMA_background, LMA_disposed, LA_vars>>

\* modelsLoaded++; if (modelsLoaded === totalModels) setLoading(false);
CountModel_NoIncrement ==
  /\ modelsLoaded' = modelsLoaded
  /\ loading' = IF modelsLoaded = totalModels THEN FALSE ELSE loading

CountModel_WheelsOnly ==
  /\ modelsLoaded' = modelsLoaded + 1
  /\ loading' = IF modelsLoaded + 1 = Len(wheelPositions) THEN FALSE ELSE loading

CountModel ==
  /\ modelsLoaded' = modelsLoaded + 1
  /\ loading' = IF modelsLoaded + 1 = totalModels THEN FALSE ELSE loading

\* HDR success callback.
LMA_HdrLoaded_Counted ==
  /\ LMA_hdr = "pending"
  /\ LMA_hdr' = "loaded"
  /\ LMA_environment' = "hdrTexture"
  /\ LMA_background' = "hdrTexture"
  /\ console' = console \cup {"HDR loaded successfully"}
  /\ CountModel
  /\ UNCHANGED <<sidebarItems, windowSize, resizeListeners, frameCallbacks, lastHandle,
                 LMA_phase, error, LMA_body, LMA_wheel, LMA_scene,
                 LMA_dom, LMA_loop, LA_vars>>

LMA_HdrLoaded ==
  /\ LMA_hdr = "pending"
  /\ LMA_hdr' = "loaded"
  /\ LMA_environment' = "hdrTexture"
  /\ LMA_background' = "hdrTexture"
  /\ console' = console \cup {"HDR loaded successfully"}
  /\ UNCHANGED <<sidebarItems, windowSize, resizeListeners, frameCallbacks, lastHandle,
                 LMA_phase, LMA_state, LMA_body, LMA_wheel, LMA_scene,
                 LMA_dom, LMA_loop, LA_vars>>

\* HDR error callback.
LMA_HdrError ==
  /\ LMA_hdr = "pending"
  /\ LMA_hdr' = "failed"
  /\ console' = console \cup {"Error loading HDR:"}
  /\ error' = HdrErrorText
  /\ LMA_background' = "fallbackColor"
  /\ UNCHANGED <<sidebarItems, windowSize, resizeListeners, frameCallbacks, lastHandle,
                 LMA_phase, loading, modelsLoaded, LMA_body, LMA_wheel,
                 LMA_scene, LMA_environment, LMA_dom, LMA_loop, LA_vars>>

\* createFallbackModel(): a red cube is added to the scene.
createFallbackModel(scene, log) ==
  /\ LMA_scene' = scene \cup {"fallbackCube"}
  /\ console' = log \cup {"Created fallback cube"}

\* SUV body success callback.
LMA_BodyLoaded ==
  /\ LMA_body = "pending"
  /\ LMA_body' = "loaded"
  /\ console' = console \cup {"SUV body loaded"}
  /\ LMA_scene' = LMA_scene \cup {"suvBody"}
  /\ CountModel
  /\ UNCHANGED <<sidebarItems, windowSize, resizeListeners, frameCallbacks, lastHandle,
                 LMA_phase, error, LMA_hdr, LMA_wheel, LMA_environment,
                 LMA_background, LMA_dom, LMA_loop, LA_vars>>

\* SUV body error callback.
LMA_BodyError_NoFallback ==
  /\ LMA_body = "pending"
  /\ LMA_body' = "failed"
  /\ error' = SuvErrorText
  /\ console' = console \cup {"Error loading SUV body:"}
  /\ CountModel
  /\ UNCHANGED <<sidebarItems, windowSize, resizeListeners, frameCallbacks, lastHandle,
                 LMA_phase, LMA_hdr, LMA_wheel, LMA_sceneVars,
                 LMA_dom, LMA_loop, LA_vars>>

LMA_BodyError ==
  /\ LMA_body = "pending"
  /\ LMA_body' = "failed"
  /\ error' = SuvErrorText
  /\ createFallbackModel(LMA_scene, console \cup {"Error loading SUV body:"})
  /\ CountModel
  /\ UNCHANGED <<sidebarItems, windowSize, resizeListeners, frameCallbacks, lastHandle,
                 LMA_phase, LMA_hdr, LMA_wheel, LMA_environment,
                 LMA_background, LMA_dom, LMA_loop, LA_vars>>

\* Success callback of wheel `i`.
LMA_WheelLoaded(i) ==
  /\ LMA_wheel[i] = "pending"
  /\ LMA_wheel' = [LMA_wheel EXCEPT ![i] = "loaded"]
  /\ console' = console \cup {WheelLoadedMsg[i]}
  /\ LMA_scene' = LMA_scene \cup {WheelObject[i]}
  /\ CountModel
  /\ UNCHANGED <<sidebarItems, windowSize, resizeListeners, frameCallbacks, lastHandle,
                 LMA_phase, error, LMA_hdr, LMA_body, LMA_environment,
                 LMA_background, LMA_dom, LMA_loop, LA_vars>>

\* Error callback of wheel `i`.
LMA_WheelError_SetsError(i) ==
  /\ LMA_wheel[i] = "pending"
  /\ LMA_wheel' = [LMA_wheel EXCEPT ![i] = "failed"]
  /\ console' = console \cup {WheelErrorMsg[i]}
  /\ error' = SuvErrorText
  /\ CountModel
  /\ UNCHANGED <<sidebarItems, windowSize, resizeListeners, frameCallbacks, lastHandle,
                 LMA_phase, LMA_hdr, LMA_body, LMA_sceneVars,
                 LMA_dom, LMA_loop, LA_vars>>

LMA_WheelError(i) ==
  /\ LMA_wheel[i] = "pending"
  /\ LMA_wheel' = [LMA_wheel EXCEPT ![i] = "failed"]
  /\ console' = console \cup {WheelErrorMsg[i]}
  /\ CountModel
  /\ UNCHANGED <<sidebarItems, windowSize, resizeListeners, frameCallbacks, lastHandle,
                 LMA_phase, error, LMA_hdr, LMA_body, LMA_sceneVars,
                 LMA_dom, LMA_loop, LA_vars>>

\* The browser runs a queued animate callback of this viewer.
LMA_Frame ==
  /\ lastHandle < MaxFrames
  /\ \E cb \in frameCallbacks :
       /\ cb.owner = "LMA"
       /\ LMA_animate(frameCallbacks \ {cb})
  /\ UNCHANGED <<sidebarItems, windowSize, resizeListeners, console, LMA_phase, LMA_state,
                 LMA_loads, LMA_sceneVars, LMA_dom, LA_vars>>

\* The effect cleanup.  mountRefSet / statsRefSet: whether mountRef.current /
\* statsRef.current still hold their div when the cleanup reads them (React
\* resets a ref to null when it detaches the element).
LMA_cleanup_NoCancel(mountRefSet, statsRefSet) ==
  /\ LMA_phase = "mounted"
  /\ LMA_phase' = "cleaned"
  /\ resizeListeners' = resizeListeners \ {"LMA"}
  /\ LMA_mountChildren' = IF mountRefSet /\ "canvas" \in LMA_mountChildren
                          THEN LMA_mountChildren \ {"canvas"}
                          ELSE LMA_mountChildren
  /\ LMA_statsChildren' = IF statsRefSet /\ "statsDom" \in LMA_statsChildren
                          THEN LMA_statsChildren \ {"statsDom"}
                          ELSE LMA_statsChildren
  /\ LMA_disposed' = LMA_disposed \cup {"renderer", "controls"}
  /\ UNCHANGED <<sidebarItems, windowSize, frameCallbacks, lastHandle, console, LMA_state,
                 LMA_loads, LMA_sceneVars, LMA_rendererSize, LMA_loop, LA_vars>>

LMA_cleanup(mountRefSet, statsRefSet) ==
  /\ LMA_phase = "mounted"
  /\ LMA_phase' = "cleaned"
  /\ resizeListeners' = resizeListeners \ {"LMA"}
  /\ frameCallbacks' = IF LMA_animationFrameId # 0
                       THEN cancelAnimationFrame(frameCallbacks, LMA_animationFrameId)
                       ELSE frameCallbacks
  /\ LMA_mountChildren' = IF mountRefSet /\ "canvas" \in LMA_mountChildren
                          THEN LMA_mountChildren \ {"canvas"}
                          ELSE LMA_mountChildren
  /\ LMA_statsChildren' = IF statsRefSet /\ "statsDom" \in LMA_statsChildren
                          THEN LMA_statsChildren \ {"statsDom"}
                          ELSE LMA_statsChildren
  /\ LMA_disposed' = LMA_disposed \cup {"renderer", "controls"}
  /\ UNCHANGED <<sidebarItems, windowSize, lastHandle, console, LMA_state, LMA_loads,
                 LMA_sceneVars, LMA_rendererSize, LMA_loop, LA_vars>>

LMA_Unmount == \E mountRefSet \in BOOLEAN, statsRefSet \in BOOLEAN :
                 LMA_cleanup(mountRefSet, statsRefSet)

(***************************************************************************)
(* LoadingAssets.                                                          *)
(***************************************************************************)
\* const animate = () => {...}: request the next frame, then update and render.
LA_animate(callbacks) ==
  /\ requestAnimationFrame(callbacks, "LA")
  /\ LA_animationFrameId' = lastHandle + 1
  /\ LA_frames' = LA_frames + 1

\* The useEffect body.  One material object is created and given to the plane.
LA_Mount ==
  /\ LA_phase = "unmounted"
  /\ LMA_phase = "unmounted"
  /\ LA_phase' = "mounted"
  /\ LA_hdr' = "pending"
  /\ LA_mountChildren' = {"canvas"}
  /\ LA_rendererSize' = windowSize
  /\ resizeListeners' = resizeListeners \cup {"LA"}
  /\ LA_texture' = "pending"
  /\ LA_planeMaterial' = "material"
  /\ LA_scene' = {"plane", "ambientLight", "directionalLight"}
  /\ LA_model' = "pending"
  /\ LA_statsChildren' = {"statsDom"}
  /\ LA_animate(frameCallbacks)
  /\ UNCHANGED <<sidebarItems, windowSize, console, LA_environment, LA_background,
                 LA_materialMap, LA_meshMaterial, LA_disposed, LMA_vars>>

\* HDR success callback.
LA_HdrLoaded ==
  /\ LA_hdr = "pending"
  /\ LA_hdr' = "loaded"
  /\ LA_environment' = "hdrTexture"
  /\ LA_background' = "hdrTexture"
  /\ UNCHANGED <<sidebarItems, win_vars, LA_phase, LA_texture, LA_model, LA_scene,
                 LA_materialMap, LA_planeMaterial, LA_meshMaterial, LA_dom,
                 LA_loop, LMA_vars>>

\* HDR error callback.
LA_HdrError ==
  /\ LA_hdr = "pending"
  /\ LA_hdr' = "failed"
  /\ console' = console \cup {"Error loading HDR:"}
  /\ UNCHANGED <<sidebarItems, windowSize, resizeListeners, frameCallbacks, lastHandle,
                 LA_phase, LA_texture, LA_model, LA_sceneVars, LA_dom,
                 LA_loop, LMA_vars>>

\* Texture success callback: material.map = texture.
LA_TextureLoaded_SkippedAfterCleanup ==
  /\ LA_texture = "pending"
  /\ LA_texture' = "loaded"
  /\ LA_materialMap' = IF LA_phase = "mounted" THEN "texture" ELSE LA_materialMap
  /\ UNCHANGED <<sidebarItems, win_vars, LA_phase, LA_hdr, LA_model, LA_scene,
                 LA_environment, LA_background, LA_planeMaterial,
                 LA_meshMaterial, LA_dom, LA_loop, LMA_vars>>

LA_TextureLoaded ==
  /\ LA_texture = "pending"
  /\ LA_texture' = "loaded"
  /\ LA_materialMap' = "texture"
  /\ UNCHANGED <<sidebarItems, win_vars, LA_phase, LA_hdr, LA_model, LA_scene,
                 LA_environment, LA_background, LA_planeMaterial,
                 LA_meshMaterial, LA_dom, LA_loop, LMA_vars>>

\* Texture error callback.
LA_TextureError ==
  /\ LA_texture = "pending"
  /\ LA_texture' = "failed"
  /\ console' = console \cup {"Error loading texture:"}
  /\ UNCHANGED <<sidebarItems, windowSize, resizeListeners, frameCallbacks, lastHandle,
                 LA_phase, LA_hdr, LA_model, LA_sceneVars, LA_dom, LA_loop,
                 LMA_vars>>

\* Model success callback: every mesh gets the shared material, then the
\* model joins the scene.
LA_ModelLoaded_FirstMeshOnly ==
  /\ LA_model = "pending"
  /\ LA_model' = "loaded"
  /\ LA_meshMaterial' = [LA_meshMaterial EXCEPT !["mesh1"] = "material"]
  /\ LA_scene' = LA_scene \cup {"gltfScene"}
  /\ UNCHANGED <<sidebarItems, win_vars, LA_phase, LA_hdr, LA_texture, LA_environment,
                 LA_background, LA_materialMap, LA_planeMaterial, LA_dom,
                 LA_loop, LMA_vars>>

LA_ModelLoaded ==
  /\ LA_model = "pending"
  /\ LA_model' = "loaded"
  /\ LA_meshMaterial' = [m \in Meshes |-> "material"]
  /\ LA_scene' = LA_scene \cup {"gltfScene"}
  /\ UNCHANGED <<sidebarItems, win_vars, LA_phase, LA_hdr, LA_texture, LA_environment,
                 LA_background, LA_materialMap, LA_planeMaterial, LA_dom,
                 LA_loop, LMA_vars>>

\* Model error callback.
LA_ModelError ==
  /\ LA_model = "pending"
  /\ LA_model' = "failed"
  /\ console' = console \cup {"Error loading model:"}
  /\ UNCHANGED <<sidebarItems, windowSize, resizeListeners, frameCallbacks, lastHandle,
                 LA_phase, LA_hdr, LA_texture, LA_sceneVars, LA_dom, LA_loop,
                 LMA_vars>>

\* The browser runs a queued animate callback of this viewer.
LA_Frame ==
  /\ lastHandle < MaxFrames
  /\ \E cb \in frameCallbacks :
       /\ cb.owner = "LA"
       /\ LA_animate(frameCallbacks \ {cb})
  /\ UNCHANGED <<sidebarItems, windowSize, resizeListeners, console, LA_phase, LA_loads,
                 LA_sceneVars, LA_dom, LMA_vars>>

\* The effect cleanup; material.map is disposed only if it is set by now.
LA_cleanup(mountRefSet, statsRefSet) ==
  /\ LA_phase = "mounted"
  /\ LA_phase' = "cleaned"
  /\ resizeListeners' = resizeListeners \ {"LA"}
  /\ frameCallbacks' = IF LA_animationFrameId # 0
                       THEN cancelAnimationFrame(frameCallbacks, LA_animationFrameId)
                       ELSE frameCallbacks
  /\ LA_mountChildren' = IF mountRefSet /\ "canvas" \in LA_mountChildren
                         THEN LA_mountChildren \ {"canvas"}
                         ELSE LA_mountChildren
  /\ LA_statsChildren' = IF statsRefSet /\ "statsDom" \in LA_statsChildren
                         THEN LA_statsChildren \ {"statsDom"}
                         ELSE LA_statsChildren
  /\ LA_disposed' = LA_disposed
                      \cup {"renderer", "material", "planeGeometry", "controls"}
                      \cup (IF LA_materialMap # NULL THEN {"texture"} ELSE {})
  /\ UNCHANGED <<sidebarItems, windowSize, lastHandle, console, LA_loads, LA_sceneVars,
                 LA_rendererSize, LA_loop, LMA_vars>>

LA_Unmount == \E mountRefSet \in BOOLEAN, statsRefSet \in BOOLEAN :
                LA_cleanup(mountRefSet, statsRefSet)

(***************************************************************************)
(* Resize events.                                                          *)
(***************************************************************************)
\* handleResize of LoadingMultipleAssets: renderer.setSize(window size).
LMA_handleResize(size) == LMA_rendererSize' = size

\* handleResize of LoadingAssets: renderer.setSize(size of the mount div,
\* which the stylesheet ties to the window size).
LA_handleResize(size) == LA_rendererSize' = size

\* The window changes size and dispatches "resize" to the registered listeners.
WindowResize ==
  \E size \in WindowSizes \ {windowSize} :
    /\ windowSize' = size
    /\ IF "LMA" \in resizeListeners
       THEN LMA_handleResize(size)
       ELSE UNCHANGED LMA_rendererSize
    /\ IF "LA" \in resizeListeners
       THEN LA_handleResize(size)
       ELSE UNCHANGED LA_rendererSize
    /\ UNCHANGED <<sidebarItems, resizeListeners, frameCallbacks, lastHandle, console,
                   LMA_phase, LMA_state, LMA_loads, LMA_sceneVars,
                   LMA_mountChildren, LMA_statsChildren, LMA_disposed, LMA_loop,
                   LA_phase, LA_loads, LA_sceneVars, LA_mountChildren,
                   LA_statsChildren, LA_disposed, LA_loop>>

Next ==
  \/ LMA_Mount
  \/ LMA_HdrLoaded
  \/ LMA_HdrError
  \/ LMA_BodyLoaded
  \/ LMA_BodyError
  \/ \E i \in Wheels : LMA_WheelLoaded(i)
  \/ \E i \in Wheels : LMA_WheelError(i)
  \/ LMA_Frame
  \/ LMA_Unmount
  \/ LA_Mount
  \/ LA_HdrLoaded
  \/ LA_HdrError
  \/ LA_TextureLoaded
  \/ LA_TextureError
  \/ LA_ModelLoaded
  \/ LA_ModelError
  \/ LA_Frame
  \/ LA_Unmount
  \/ WindowResize

Spec == Init /\ [][Next]_vars

TypeOK ==
  /\ windowSize \in WindowSizes
  /\ resizeListeners \subseteq {"LMA", "LA"}
  /\ lastHandle \in 0..MaxFrames
  /\ modelsLoaded \in Nat
  /\ loading \in BOOLEAN
  /\ error \in {NULL, HdrErrorText, SuvErrorText}
  /\ LMA_hdr \in Status /\ LMA_body \in Status
  /\ LMA_wheel \in [Wheels -> Status]
  /\ LA_hdr \in Status /\ LA_texture \in Status /\ LA_model \in Status

(***************************************************************************)
(* Properties.                                                             *)
(***************************************************************************)
Done == {"loaded", "failed"}

\* Model loads issued by LoadingMultipleAssets: the body and one per wheel.
NumModelLoads == 1 + Len(wheelPositions)

\* Model loads of LoadingMultipleAssets whose success or error callback ran.
CompletedModels ==
  (IF LMA_body \in Done THEN 1 ELSE 0)
    + Cardinality({i \in Wheels : LMA_wheel[i] \in Done})

\* C1: whatever the completion order and the outcomes, loading is true
\* exactly while fewer than all five model loads have completed (so it is
\* false once all five have), and once false it never returns to true.
C1_LoadingUntilFifth ==
  /\ [](loading <=> CompletedModels < NumModelLoads)
  /\ [][~loading => ~loading']_vars

C1_Witness ==
  /\ ~loading
  /\ LMA_body = "failed"
  /\ LMA_wheel[1] = "failed"
  /\ LMA_wheel[2] = "loaded"

\* C2: at most one animation-frame request is pending at any time; after a
\* viewer's cleanup none of its requests is pending and its animate never
\* runs again.
C2_SingleFrameCancelled ==
  /\ [](/\ Cardinality(frameCallbacks) <= 1
        /\ LMA_phase = "cleaned" => \A cb \in frameCallbacks : cb.owner # "LMA"
        /\ LA_phase = "cleaned" => \A cb \in frameCallbacks : cb.owner # "LA")
  /\ [][/\ LMA_phase = "cleaned" => LMA_frames' = LMA_frames
        /\ LA_phase = "cleaned" => LA_frames' = LA_frames]_vars

C2_Witness ==
  /\ LMA_phase = "cleaned"
  /\ LMA_frames >= 2
  /\ frameCallbacks = {}

FallbackObjects == {"fallbackCube"}

\* C3 as stated: every failed model load (body, each wheel, the model of
\* LoadingAssets) leaves a fallback object in its scene.
C3_FallbackForEveryModel ==
  /\ LMA_body = "failed" => LMA_scene \cap FallbackObjects # {}
  /\ \A i \in Wheels : LMA_wheel[i] = "failed" => LMA_scene \cap FallbackObjects # {}
  /\ LA_model = "failed" => LA_scene \cap FallbackObjects # {}

\* C3 amended: every failed model load is logged; the fallback cube is in
\* the scene exactly when the SUV body load has failed; a wheel failure and
\* a failure of the LoadingAssets model add nothing to their scene.
C3_FallbackForBodyOnly ==
  /\ LMA_body = "failed" => "Error loading SUV body:" \in console
  /\ \A i \in Wheels : LMA_wheel[i] = "failed" => WheelErrorMsg[i] \in console
  /\ LA_model = "failed" => "Error loading model:" \in console
  /\ LMA_phase # "unmounted" =>
       LMA_scene = {"ambientLight", "directionalLight", "gridHelper"}
                     \cup (IF LMA_body = "loaded" THEN {"suvBody"} ELSE {})
                     \cup (IF LMA_body = "failed" THEN FallbackObjects ELSE {})
                     \cup {WheelObject[i] : i \in {j \in Wheels : LMA_wheel[j] = "loaded"}}
  /\ LA_phase # "unmounted" =>
       LA_scene = {"plane", "ambientLight", "directionalLight"}
                    \cup (IF LA_model = "loaded" THEN {"gltfScene"} ELSE {})

C3_Witness ==
  /\ LMA_body = "failed"
  /\ LMA_wheel[1] = "failed"
  /\ "fallbackCube" \in LMA_scene

\* C4: no load completes twice, modelsLoaded equals the number of completed
\* model loads, and 0 <= modelsLoaded <= totalModels = 5.
C4_CounterMatchesCompletions ==
  /\ [](/\ modelsLoaded = CompletedModels
        /\ 0 <= modelsLoaded
        /\ modelsLoaded <= totalModels
        /\ totalModels = 5)
  /\ [][/\ LMA_hdr \in Done => LMA_hdr' = LMA_hdr
        /\ LMA_body \in Done => LMA_body' = LMA_body
        /\ \A i \in Wheels : LMA_wheel[i] \in Done => LMA_wheel'[i] = LMA_wheel[i]
        /\ LA_hdr \in Done => LA_hdr' = LA_hdr
        /\ LA_texture \in Done => LA_texture' = LA_texture
        /\ LA_model \in Done => LA_model' = LA_model]_vars

C4_Witness ==
  /\ modelsLoaded = 3
  /\ LMA_body = "pending"
  /\ LMA_wheel[1] = "failed"
  /\ LMA_wheel[2] = "loaded"

\* C5 as stated: after a viewer's cleanup its resize listener is gone, the
\* canvas and the stats element are no longer children of their containers,
\* and the renderer and the controls are disposed.
C5_TornDown ==
  /\ LMA_phase = "cleaned" =>
       /\ "LMA" \notin resizeListeners
       /\ "canvas" \notin LMA_mountChildren
       /\ "statsDom" \notin LMA_statsChildren
       /\ {"renderer", "controls"} \subseteq LMA_disposed
  /\ LA_phase = "cleaned" =>
       /\ "LA" \notin resizeListeners
       /\ "canvas" \notin LA_mountChildren
       /\ "statsDom" \notin LA_statsChildren
       /\ {"renderer", "controls"} \subseteq LA_disposed

\* C6: no two items of SidebarItemsData, at any nesting depth of sub and
\* under whatever parents, share an id.
C6_UniqueIds ==
  LET ids == FlattenIds(sidebarItems)
  IN  \A i, j \in 1..Len(ids) : i # j => ids[i] # ids[j]

C6_Witness ==
  /\ Len(FlattenIds(sidebarItems)) = 15
  /\ sidebarItems[2].sub[2].sub[2].id = 222
  /\ sidebarItems[3].sub[1].id = 223
  /\ sidebarItems[3].sub[2].sub[1].id = 321

\* C7: a load callback that fires after the cleanup still takes full
\* effect: the body or a wheel completing raises modelsLoaded and (body, or
\* wheel success) adds to the scene, the fifth completion sets loading to
\* false, an HDR or body failure sets the error message, and a texture
\* loaded after the LoadingAssets cleanup is assigned to material.map and is
\* not disposed, then or later.
C7_LoadsOutliveCleanup ==
  [][/\ LMA_phase = "cleaned" =>
          /\ LMA_body' # LMA_body =>
               /\ modelsLoaded' = modelsLoaded + 1
               /\ LMA_scene' # LMA_scene
               /\ LMA_body' = "failed" => error' = SuvErrorText
          /\ \A i \in Wheels : LMA_wheel'[i] # LMA_wheel[i] =>
               /\ modelsLoaded' = modelsLoaded + 1
               /\ LMA_wheel'[i] = "loaded" => WheelObject[i] \in LMA_scene' \ LMA_scene
          /\ CompletedModels' = NumModelLoads => ~loading'
          /\ (LMA_hdr' # LMA_hdr /\ LMA_hdr' = "failed") => error' = HdrErrorText
     /\ LA_phase = "cleaned" =>
          /\ LA_disposed' = LA_disposed
          /\ LA_texture' # LA_texture =>
               (LA_texture' = "loaded" =>
                  LA_materialMap' = "texture" /\ "texture" \notin LA_disposed')
          /\ LA_model' # LA_model =>
               (LA_model' = "loaded" => "gltfScene" \in LA_scene')]_vars

C7_Witness ==
  /\ LA_phase = "cleaned"
  /\ LA_materialMap = "texture"
  /\ "texture" \notin LA_disposed

\* C8: the HDR callbacks of LoadingMultipleAssets leave modelsLoaded and
\* loading alone; after HDR success environment and background are the
\* texture, after HDR failure the background is the fallback colour and the
\* environment is unset.
C8_HdrOutsideCounter ==
  /\ [](/\ LMA_hdr = "loaded" =>
             LMA_environment = "hdrTexture" /\ LMA_background = "hdrTexture"
        /\ LMA_hdr = "failed" =>
             LMA_environment = NULL /\ LMA_background = "fallbackColor")
  /\ [][(LMA_hdr = "pending" /\ LMA_hdr' # LMA_hdr) =>
          (modelsLoaded' = modelsLoaded /\ loading' = loading)]_vars

C8_Witness ==
  /\ ~loading
  /\ LMA_hdr = "pending"

\* C9: error is null until the HDR load or the body load fails; only those
\* two failures change it, each to its own message (so the later of the two
\* wins); no wheel failure and no success changes it; it never returns to
\* null.
C9_ErrorMessage ==
  /\ [](error = NULL <=> (LMA_hdr # "failed" /\ LMA_body # "failed"))
  /\ [][/\ error' # error =>
             \/ LMA_hdr' # LMA_hdr /\ LMA_hdr' = "failed"
             \/ LMA_body' # LMA_body /\ LMA_body' = "failed"
        /\ (LMA_hdr' # LMA_hdr /\ LMA_hdr' = "failed") => error' = HdrErrorText
        /\ (LMA_body' # LMA_body /\ LMA_body' = "failed") => error' = SuvErrorText
        /\ error # NULL => error' # NULL]_vars

C9_Witness ==
  /\ LMA_hdr = "failed"
  /\ LMA_body = "failed"
  /\ LMA_wheel[1] = "failed"
  /\ error = HdrErrorText

\* C10: in LoadingAssets, once the model has loaded the plane and every
\* mesh of the model use the one material object; its map is the texture if
\* the texture has loaded too (whichever came first) and unset otherwise.
C10_SharedMaterial ==
  LA_model = "loaded" =>
    /\ LA_planeMaterial = "material"
    /\ \A m \in Meshes : LA_meshMaterial[m] = LA_planeMaterial
    /\ LA_texture = "loaded" => LA_materialMap = "texture"
    /\ LA_texture # "loaded" => LA_materialMap = NULL

C10_Witness ==
  /\ LA_model = "loaded"
  /\ LA_texture = "loaded"
  /\ LA_materialMap = "texture"

====
